---- MODULE Spec2Model ----
\* The audio engine hook (src/hooks/useAudioEngine.ts) and the three
\* components that use it (BinauralGenerator, ChordPlayer, BeatSequencer),
\* over a model of the Web Audio graph they drive: nodes, their parameters,
\* their connections and which sources are playing.
EXTENDS Integers, Sequences, FiniteSets, TLC

\* =====================================================================
\* JavaScript Number arithmetic: IEEE-754 binary64, round to nearest, ties
\* to even.  A magnitude is a natural number in little-endian limbs of
\* LimbBits bits; a double is (-1)^neg * m * 2^e with m of exactly MantBits
\* bits, or zero.
\* =====================================================================
LimbBits == 15
LimbBase == 32768
MantBits == 53

RECURSIVE Pow2(_)
Pow2(k) == IF k = 0 THEN 1 ELSE 2 * Pow2(k - 1)

RECURSIVE BNorm(_)
BNorm(a) == IF a = <<>> THEN a
            ELSE IF a[Len(a)] = 0 THEN BNorm(SubSeq(a, 1, Len(a) - 1)) ELSE a

BFromInt(n) == BNorm(<<n % LimbBase, (n \div LimbBase) % LimbBase, n \div (LimbBase * LimbBase)>>)

RECURSIVE BAddC(_, _, _)
BAddC(a, b, c) ==
    IF a = <<>> /\ b = <<>> THEN (IF c = 0 THEN <<>> ELSE <<c>>)
    ELSE LET Carry(s) == <<s % LimbBase>> \o BAddC(IF a = <<>> THEN a ELSE Tail(a),
                                                   IF b = <<>> THEN b ELSE Tail(b),
                                                   s \div LimbBase)
         IN  Carry((IF a = <<>> THEN 0 ELSE Head(a)) + (IF b = <<>> THEN 0 ELSE Head(b)) + c)
BAdd(a, b) == BAddC(a, b, 0)

RECURSIVE BSubC(_, _, _)
BSubC(a, b, c) ==
    IF a = <<>> THEN <<>>
    ELSE LET Borrow(d) == <<d % LimbBase>> \o BSubC(Tail(a), IF b = <<>> THEN b ELSE Tail(b),
                                                    IF d < 0 THEN 1 ELSE 0)
         IN  Borrow(Head(a) - (IF b = <<>> THEN 0 ELSE Head(b)) - c)
BSub(a, b) == BNorm(BSubC(a, b, 0))

RECURSIVE BMulSmallC(_, _, _)
BMulSmallC(a, k, c) ==
    IF a = <<>> THEN (IF c = 0 THEN <<>> ELSE <<c>>)
    ELSE LET CarryMul(p) == <<p % LimbBase>> \o BMulSmallC(Tail(a), k, p \div LimbBase)
         IN  CarryMul(Head(a) * k + c)
BMulSmall(a, k) == BNorm(BMulSmallC(a, k, 0))

RECURSIVE BMul(_, _)
BMul(a, b) ==
    IF a = <<>> \/ b = <<>> THEN <<>>
    ELSE LET Shifted(r) == IF r = <<>> THEN r ELSE <<0>> \o r
         IN  BAdd(BMulSmall(a, Head(b)), Shifted(BMul(a, Tail(b))))

\* quotient and remainder of a by a small k (0 < k < LimbBase)
RECURSIVE BDivSmallR(_, _, _)
BDivSmallR(a, k, i) ==
    IF i > Len(a) THEN [q |-> <<>>, r |-> 0]
    ELSE LET Digit(hi, cur) == [q |-> <<cur \div k>> \o hi.q, r |-> cur % k]
             Step(hi) == Digit(hi, hi.r * LimbBase + a[i])
         IN  Step(BDivSmallR(a, k, i + 1))
BDivSmall(a, k) == LET Norm(d) == [q |-> BNorm(d.q), r |-> d.r] IN Norm(BDivSmallR(a, k, 1))

RECURSIVE Zeros(_)
Zeros(n) == IF n = 0 THEN <<>> ELSE <<0>> \o Zeros(n - 1)

BShl(a, n) == IF a = <<>> THEN a
              ELSE Zeros(n \div LimbBits) \o BMulSmall(a, Pow2(n % LimbBits))
BShr(a, n) == IF n \div LimbBits >= Len(a) THEN <<>>
              ELSE BDivSmall(SubSeq(a, (n \div LimbBits) + 1, Len(a)), Pow2(n % LimbBits)).q

RECURSIVE SmallBitLen(_)
SmallBitLen(x) == IF x = 0 THEN 0 ELSE 1 + SmallBitLen(x \div 2)
BitLen(a) == IF a = <<>> THEN 0 ELSE LimbBits * (Len(a) - 1) + SmallBitLen(a[Len(a)])

\* -1, 0, 1 as a < b, a = b, a > b
RECURSIVE BCmpAt(_, _, _)
BCmpAt(a, b, i) == IF i = 0 THEN 0
                   ELSE IF a[i] < b[i] THEN -1
                   ELSE IF a[i] > b[i] THEN 1 ELSE BCmpAt(a, b, i - 1)
BCmp(a, b) == IF Len(a) < Len(b) THEN -1
              ELSE IF Len(a) > Len(b) THEN 1 ELSE BCmpAt(a, b, Len(a))
BOdd(a) == a # <<>> /\ a[1] % 2 = 1

FZero == [neg |-> FALSE, m |-> <<>>, e |-> 0]

\* the double nearest to n * 2^e, ties to even (neither overflow nor a
\* subnormal can occur for the magnitudes the engine handles)
Round(n, e) ==
    LET Fit(q1, sh) == IF BitLen(q1) > MantBits
                       THEN [neg |-> FALSE, m |-> BShr(q1, 1), e |-> e + sh + 1]
                       ELSE [neg |-> FALSE, m |-> q1, e |-> e + sh]
        \* c compares the cut-off part with one half of the last place
        Nearest(q, c) == IF c = 1 \/ (c = 0 /\ BOdd(q)) THEN BAdd(q, <<1>>) ELSE q
        Cut(q, sh) == Fit(Nearest(q, BCmp(BSub(n, BShl(q, sh)), BShl(<<1>>, sh - 1))), sh)
        Sized(L) == IF L = 0 THEN FZero
                    ELSE IF L <= MantBits
                         THEN [neg |-> FALSE, m |-> BShl(n, MantBits - L), e |-> e - (MantBits - L)]
                    ELSE Cut(BShr(n, L - MantBits), L - MantBits)
    IN  Sized(BitLen(n))

\* the Number with the integer value n
FInt(n) == IF n < 0 THEN [Round(BFromInt(-n), 0) EXCEPT !.neg = TRUE]
           ELSE Round(BFromInt(n), 0)

\* p / q for integers p and 0 < q < LimbBase, rounded once (the quotient to
\* 60 or more bits with a sticky bit); also the value of the decimal
\* literal p/q, e.g. 0.3 = FDivInt(3, 10)
FDivInt(p, q) ==
    LET Sticky(d) == BAdd(BShl(d.q, 1), IF d.r = 0 THEN <<>> ELSE <<1>>)
        Signed(f) == IF p < 0 THEN [f EXCEPT !.neg = TRUE] ELSE f
    IN  Signed(Round(Sticky(BDivSmall(BShl(BFromInt(IF p < 0 THEN -p ELSE p), 75), q)), -76))

FMul(a, b) == IF a.m = <<>> \/ b.m = <<>> THEN FZero
              ELSE [Round(BMul(a.m, b.m), a.e + b.e) EXCEPT !.neg = (a.neg # b.neg)]

FMinE(a, b) == IF a.m = <<>> THEN b.e ELSE IF b.m = <<>> THEN a.e
               ELSE IF a.e < b.e THEN a.e ELSE b.e
\* a + b for a, b >= 0 and a - b for 0 <= b <= a: the engine computes sums
\* and differences only of values in [0, 1]
FAdd(a, b) == LET AlignedSum(e) == Round(BAdd(BShl(a.m, a.e - e), BShl(b.m, b.e - e)), e)
              IN  AlignedSum(FMinE(a, b))
FSub(a, b) == LET AlignedDiff(e) == Round(BSub(BShl(a.m, a.e - e), BShl(b.m, b.e - e)), e)
              IN  AlignedDiff(FMinE(a, b))
\* a <= b for non-negative doubles
FLeq(a, b) == LET Aligned(e) == BCmp(BShl(a.m, a.e - e), BShl(b.m, b.e - e)) <= 0
              IN  Aligned(FMinE(a, b))

\* =====================================================================
\* Inputs and bounds
\* =====================================================================
Components == {"BinauralGenerator", "ChordPlayer", "BeatSequencer"}
\* the hook whose returned functions the specification Spec exercises
Hook == "BinauralGenerator"

MaxBuilds == 3       \* calls that build a graph (a session, a chord, a drum hit), per hook
MaxRun    == 3       \* repeated calls of one function in a row are counted up to here

\* a slider position k (in percent) scaled as the components scale it: k / 100
Percent(k) == FDivInt(k, 100)

\* the values the binaural functions are called with under SpecBinaural
BaseFreqs == {200, 400}
BeatFreqs == {4, 10}
Mixes     == {Percent(k) : k \in {0, 10, 30}}
Pans      == {Percent(k) : k \in {-100, 0}}
Waveforms == {"sine", "square"}

\* the values every function of the hook is called with under Spec
StartInputs    == {<<200, 4, Percent(0), Percent(0), "sine">>}
UpdateFreqs    == {<<400, 10>>}
UpdateMixes    == {Percent(30)}
UpdatePans     == {Percent(-100)}
UpdateWaves    == {"square"}
ChordInputs    == {<<(<<0, 4, 7>>), 4, Percent(50)>>, <<(<<2, 5, 9>>), 4, Percent(50)>>}
DrumTypes      == {"kick", "snare", "hihat", "tom"}

\* ChordPlayer's chords (the ones pressed under SpecApp) and BeatSequencer's tracks
Chords    == {[name |-> "C", notes |-> <<0, 4, 7>>], [name |-> "Dm", notes |-> <<2, 5, 9>>]}
TrackDrum == <<"kick", "snare", "hihat">>
Steps     == 8
\* the positions of the BPM slider and the cells of the grid (track, step;
\* both from 0) that are moved and clicked under SpecSequencer
Bpms        == {60, 70, 120, 200}
ToggleCells == {<<2, 0>>, <<0, 1>>}

One      == FInt(1)
Ceiling  == FDivInt(3, 10)     \* the literal 0.3
ChordCeiling == FDivInt(2, 10) \* the literal 0.2
DrumGain == FDivInt(5, 10)     \* the literal 0.5
DelayTime == FDivInt(3, 10)    \* the literal 0.3
FftSize  == 2048

Null == <<>>
HandleFields == {"leftOsc", "rightOsc", "leftGain", "rightGain", "noiseSource",
                 "noiseGain", "toneGain", "panNode", "merger", "delayNode",
                 "delayGain", "convolverNode", "reverbGain"}
EmptyHandle == [f \in HandleFields |-> Null]

\* =====================================================================
\* State
\* =====================================================================
VARIABLES
    audioContext,      \* per hook: the AudioContext, or Null before the effect ran
    analyser,          \* per hook: its AnalyserNode, or Null
    binauralNodes,     \* per hook: binauralNodes.current
    chordOscillators,  \* per hook: chordOscillators.current
    drumBuffers,       \* per hook: drumBuffers.current (name -> buffer)
    made,              \* per hook: how many graphs of each path were built (names fresh nodes)
    nodes,             \* the audio graph: node -> kind, parameters, run state
    conn,              \* the audio graph: connections [from, to, input]
    raised,            \* an exception escaped some call
    hist,              \* the calls made so far, as far as the properties need them
    generator,         \* BinauralGenerator's useState values
    chordPlayer,       \* ChordPlayer's useState values
    beatSequencer      \* BeatSequencer's useState values

engine == <<audioContext, analyser, binauralNodes, chordOscillators, drumBuffers,
            made, nodes, conn, raised>>
ui     == <<generator, chordPlayer, beatSequencer>>
vars   == <<engine, hist, ui>>

\* a node is named by the hook that created it, the path it belongs to, the
\* serial number of the call that created it, its role and an index
Id(e, path, k, role, i) == <<e, path, k, role, i>>
CtxId(e)         == Id(e, "context", 0, "audioContext", 0)
DestinationId(e) == Id(e, "context", 0, "destination", 0)
AnalyserId(e)    == Id(e, "context", 0, "analyser", 0)

\* what one call works on: the refs and state of hook e, the graph, and
\* whether the call has thrown (the rest of the call is then skipped)
Engine(e) ==
    [comp |-> e, audioContext |-> audioContext[e], analyser |-> analyser[e],
     binauralNodes |-> binauralNodes[e], chordOscillators |-> chordOscillators[e],
     drumBuffers |-> drumBuffers[e], made |-> made[e],
     nodes |-> nodes, conn |-> conn, thrown |-> FALSE]

\* ---------------------------------------------------------------------
\* Web Audio calls
\* ---------------------------------------------------------------------
createOscillator(S, n) ==
    [S EXCEPT !.nodes = (n :> [kind |-> "oscillator", type |-> "sine",
                               frequency |-> 440, run |-> "unstarted"]) @@ @]
createGain(S, n) ==
    [S EXCEPT !.nodes = (n :> [kind |-> "gain", gain |-> One]) @@ @]
createBufferSource(S, n) ==
    [S EXCEPT !.nodes = (n :> [kind |-> "bufferSource", buffer |-> Null,
                               loop |-> FALSE, run |-> "unstarted"]) @@ @]
createStereoPanner(S, n) ==
    [S EXCEPT !.nodes = (n :> [kind |-> "stereoPanner", pan |-> FZero]) @@ @]
createChannelMerger(S, n, inputs) ==
    [S EXCEPT !.nodes = (n :> [kind |-> "channelMerger", inputs |-> inputs]) @@ @]
createDelay(S, n, maxDelayTime) ==
    [S EXCEPT !.nodes = (n :> [kind |-> "delay", maxDelayTime |-> maxDelayTime,
                               delayTime |-> FZero]) @@ @]
createConvolver(S, n) ==
    [S EXCEPT !.nodes = (n :> [kind |-> "convolver"]) @@ @]
createAnalyser(S, n) ==
    [S EXCEPT !.nodes = (n :> [kind |-> "analyser", fftSize |-> FftSize]) @@ @]

\* node.<param> = v, node.<param>.value = v, node.<param>.setValueAtTime(v, currentTime)
setParam(S, n, param, v) == [S EXCEPT !.nodes[n][param] = v]

\* a.connect(b, 0, input)
connect(S, a, b, input) ==
    [S EXCEPT !.conn = @ \cup {[from |-> a, to |-> b, input |-> input]}]

\* n.disconnect(): every outgoing connection of n goes
disconnect(S, n) ==
    IF S.thrown THEN S ELSE [S EXCEPT !.conn = {c \in @ : c.from # n}]

\* n.start(): InvalidStateError when n was started before
start(S, n) ==
    IF S.thrown THEN S
    ELSE IF S.nodes[n].run # "unstarted" THEN [S EXCEPT !.thrown = TRUE]
    ELSE [S EXCEPT !.nodes[n].run = "playing"]

\* n.stop(): InvalidStateError when n is not playing (never started, or, as
\* the source anticipates at :318, already stopped)
stop(S, n) ==
    IF S.thrown THEN S
    ELSE IF S.nodes[n].run # "playing" THEN [S EXCEPT !.thrown = TRUE]
    ELSE [S EXCEPT !.nodes[n].run = "stopped"]

\* the nodes some hook still holds a reference to
Referenced(an, bn, co) ==
    {an[e] : e \in Components}
    \cup {DestinationId(e) : e \in Components}
    \cup UNION {{bn[e][f] : f \in HandleFields} : e \in Components}
    \cup UNION {{co[e][i] : i \in 1..Len(co[e])} : e \in Components}

\* A node that no hook references, that is not playing and that has no
\* connection in or out can neither sound nor be reached again: it is
\* reclaimed.  Everything else stays in the graph.
Retained(S, refs) ==
    LET Kept(ends) == {n \in DOMAIN S.nodes :
                          \/ n \in refs
                          \/ n \in ends
                          \/ ("run" \in DOMAIN S.nodes[n] /\ S.nodes[n].run = "playing")}
    IN  Kept({c.from : c \in S.conn} \cup {c.to : c \in S.conn})

\* ---------------------------------------------------------------------
\* useAudioEngine
\* ---------------------------------------------------------------------
KickBuffer  == [name |-> "kick",  channels |-> 1, tenths |-> 5]
SnareBuffer == [name |-> "snare", channels |-> 1, tenths |-> 2]
HihatBuffer == [name |-> "hihat", channels |-> 1, tenths |-> 1]

\* drumBuffers.current after the three set calls
loadDrumSamples(S) ==
    [S EXCEPT !.drumBuffers = [t \in {"kick", "snare", "hihat"} |->
        IF t = "kick" THEN KickBuffer ELSE IF t = "snare" THEN SnareBuffer ELSE HihatBuffer]]

\* two seconds of two-channel noise; the samples themselves are not modelled
createWhiteNoise == [name |-> "whiteNoise", channels |-> 2, tenths |-> 20]

\* the mount effect: context, analyser wired to the destination, drum samples
mountEffect(S) ==
    LET e  == S.comp
        S1 == createAnalyser(S, AnalyserId(e))
        S2 == [S1 EXCEPT !.nodes = (DestinationId(e) :> [kind |-> "destination"]) @@ @]
        S3 == connect(S2, AnalyserId(e), DestinationId(e), 0)
        S4 == [S3 EXCEPT !.audioContext = CtxId(e), !.analyser = AnalyserId(e)]
    IN  loadDrumSamples(S4)

\* if (node) { node.stop(); node.disconnect() }
stopAndDisconnect(S, n) == IF n = Null THEN S ELSE disconnect(stop(S, n), n)
\* if (node) node.disconnect()
disconnectIf(S, n) == IF n = Null THEN S ELSE disconnect(S, n)

\* the stop and disconnect statements of stopBinaural, over the handle h
retire(S, h) ==
    LET S1  == stopAndDisconnect(S, h.leftOsc)
        S2  == stopAndDisconnect(S1, h.rightOsc)
        S3  == stopAndDisconnect(S2, h.noiseSource)
        S4  == disconnectIf(S3, h.leftGain)
        S5  == disconnectIf(S4, h.rightGain)
        S6  == disconnectIf(S5, h.noiseGain)
        S7  == disconnectIf(S6, h.toneGain)
        S8  == disconnectIf(S7, h.panNode)
        S9  == disconnectIf(S8, h.merger)
        S10 == disconnectIf(S9, h.delayNode)
        S11 == disconnectIf(S10, h.delayGain)
        S12 == disconnectIf(S11, h.convolverNode)
    IN  disconnectIf(S12, h.reverbGain)

\* binauralNodes.current = { leftOsc: null, ... }
clearHandle(S) == IF S.thrown THEN S ELSE [S EXCEPT !.binauralNodes = EmptyHandle]

\* stopBinaural without panNode.disconnect()
stopBinaural_keepsPanner(S) ==
    clearHandle(retire(S, [S.binauralNodes EXCEPT !.panNode = Null]))
\* stopBinaural without the noiseSource block
stopBinaural_keepsNoise(S) ==
    clearHandle(retire(S, [S.binauralNodes EXCEPT !.noiseSource = Null]))
\* stopBinaural without the reset of binauralNodes.current
stopBinaural_keepsHandle(S) == retire(S, S.binauralNodes)
\* stopBinaural that also disconnects the analyser
stopBinaural_resetsTap(S) ==
    clearHandle(disconnectIf(retire(S, S.binauralNodes), S.analyser))

stopBinaural(S) == clearHandle(retire(S, S.binauralNodes))

\* (1 - mix) with the 0.3 factor left out
toneLevel_unscaled(mix) == FSub(One, mix)

\* (1 - mix) * 0.3 and mix * 0.3
toneLevel(mix)  == FMul(FSub(One, mix), Ceiling)
noiseLevel(mix) == FMul(mix, Ceiling)

\* the nodes the k-th session of hook e creates, by the handle field that
\* will hold them
newNodes(e, k) == [f \in HandleFields |-> Id(e, "binaural", k, f, 0)]

\* create the nodes
createNodes(S, h) ==
    LET A1  == createChannelMerger(S, h.merger, 2)
        A2  == createOscillator(A1, h.leftOsc)
        A3  == createOscillator(A2, h.rightOsc)
        A4  == createGain(A3, h.leftGain)
        A5  == createGain(A4, h.rightGain)
        A6  == createGain(A5, h.toneGain)
        A7  == createGain(A6, h.noiseGain)
        A8  == createStereoPanner(A7, h.panNode)
        A9  == createDelay(A8, h.delayNode, One)
        A10 == createGain(A9, h.delayGain)
        A11 == createConvolver(A10, h.convolverNode)
    IN  createGain(A11, h.reverbGain)

\* set up oscillators and white noise
setUpSources(S, h, baseFreq, beatFreq, waveform) ==
    LET B1  == setParam(S, h.leftOsc, "type", waveform)
        B2  == setParam(B1, h.rightOsc, "type", waveform)
        B3  == setParam(B2, h.leftOsc, "frequency", baseFreq)
        B4  == setParam(B3, h.rightOsc, "frequency", baseFreq + beatFreq)
        B5  == createBufferSource(B4, h.noiseSource)
        B6  == setParam(B5, h.noiseSource, "buffer", createWhiteNoise)
    IN  setParam(B6, h.noiseSource, "loop", TRUE)

\* gain levels based on mix, panning, FX initialised
setLevels(S, h, noiseMix, panValue) ==
    LET C1  == setParam(S, h.leftGain, "gain", One)
        C2  == setParam(C1, h.rightGain, "gain", One)
        C3  == setParam(C2, h.toneGain, "gain", toneLevel(noiseMix))
        C4  == setParam(C3, h.noiseGain, "gain", noiseLevel(noiseMix))
        C5  == setParam(C4, h.panNode, "pan", panValue)
        C6  == setParam(C5, h.delayNode, "delayTime", DelayTime)
        C7  == setParam(C6, h.delayGain, "gain", FZero)
    IN  setParam(C7, h.reverbGain, "gain", FZero)

\* tone path and noise path into the merger
connectSources(S, h) ==
    LET D1  == connect(S, h.leftOsc, h.leftGain, 0)
        D2  == connect(D1, h.rightOsc, h.rightGain, 0)
        D3  == connect(D2, h.leftGain, h.toneGain, 0)
        D4  == connect(D3, h.rightGain, h.toneGain, 0)
        D5  == connect(D4, h.toneGain, h.merger, 0)
        D6  == connect(D5, h.toneGain, h.merger, 1)
        D7  == connect(D6, h.noiseSource, h.noiseGain, 0)
        D8  == connect(D7, h.noiseGain, h.merger, 0)
    IN  connect(D8, h.noiseGain, h.merger, 1)

\* the output wired in series: merger -> delay -> delay gain -> panner
connectOutput_serial(S, h) ==
    LET Q1 == connect(S, h.merger, h.delayNode, 0)
        Q2 == connect(Q1, h.delayNode, h.delayGain, 0)
        Q3 == connect(Q2, h.delayGain, h.panNode, 0)
    IN  connect(Q3, h.panNode, S.analyser, 0)

\* FX chain, panning and output
connectOutput(S, h) ==
    LET D10 == connect(S, h.merger, h.delayNode, 0)
        D11 == connect(D10, h.delayNode, h.delayGain, 0)
        D12 == connect(D11, h.delayGain, h.merger, 0)
        D13 == connect(D12, h.merger, h.panNode, 0)
    IN  connect(D13, h.panNode, S.analyser, 0)

\* start the sources
startSources(S, h) == start(start(start(S, h.leftOsc), h.rightOsc), h.noiseSource)

\* binauralNodes.current = { leftOsc, ... }; one more session was built
storeHandle(S, h) ==
    IF S.thrown THEN S ELSE [S EXCEPT !.binauralNodes = h, !.made.binaural = @ + 1]

startBinaural(S, baseFreq, beatFreq, noiseMix, panValue, waveform) ==
    IF S.audioContext = Null \/ S.analyser = Null THEN S
    ELSE
    LET Build(R, h) ==
            storeHandle(
              startSources(
                connectOutput(
                  connectSources(
                    setLevels(
                      setUpSources(createNodes(R, h),
                                   h, baseFreq, beatFreq, waveform),
                      h, noiseMix, panValue),
                    h),
                  h),
                h),
              h)
        \* R is the engine after the stopBinaural() call
        Restart(R) == IF R.thrown THEN R ELSE Build(R, newNodes(R.comp, R.made.binaural + 1))
    IN  Restart(stopBinaural(S))

\* updateBinauralFrequencies that sets the right oscillator to the beat alone
updateBinauralFrequencies_beatOnly(S, baseFreq, beatFreq) ==
    LET h == S.binauralNodes IN
    IF h.leftOsc # Null /\ h.rightOsc # Null /\ S.audioContext # Null
    THEN setParam(setParam(S, h.leftOsc, "frequency", baseFreq),
                  h.rightOsc, "frequency", beatFreq)
    ELSE S

updateBinauralFrequencies(S, baseFreq, beatFreq) ==
    LET h == S.binauralNodes IN
    IF h.leftOsc # Null /\ h.rightOsc # Null /\ S.audioContext # Null
    THEN setParam(setParam(S, h.leftOsc, "frequency", baseFreq),
                  h.rightOsc, "frequency", baseFreq + beatFreq)
    ELSE S

updateNoiseMix(S, mix) ==
    LET h == S.binauralNodes IN
    IF h.noiseGain # Null /\ h.toneGain # Null /\ S.audioContext # Null
    THEN setParam(setParam(S, h.toneGain, "gain", toneLevel(mix)),
                  h.noiseGain, "gain", noiseLevel(mix))
    ELSE S

\* updatePanning without its guard: panNode.pan of null is a TypeError
updatePanning_unguarded(S, panValue) ==
    LET h == S.binauralNodes IN
    IF h.panNode # Null THEN setParam(S, h.panNode, "pan", panValue)
    ELSE [S EXCEPT !.thrown = TRUE]

updatePanning(S, panValue) ==
    LET h == S.binauralNodes IN
    IF h.panNode # Null /\ S.audioContext # Null
    THEN setParam(S, h.panNode, "pan", panValue)
    ELSE S

\* updateWaveform that reaches the left oscillator only
updateWaveform_leftOnly(S, waveform) ==
    IF S.binauralNodes.leftOsc # Null /\ S.binauralNodes.rightOsc # Null
    THEN setParam(S, S.binauralNodes.leftOsc, "type", waveform)
    ELSE S

updateWaveform(S, waveform) ==
    LET h == S.binauralNodes IN
    IF h.leftOsc # Null /\ h.rightOsc # Null
    THEN setParam(setParam(S, h.leftOsc, "type", waveform), h.rightOsc, "type", waveform)
    ELSE S

\* 261.63 * 2^(semitone/12) * 2^(octave-4): Math.pow is not exactly
\* specified, so the frequency is kept as the term it is computed from
semitoneToFrequency(semitone, octave) ==
    [c4 |-> "261.63", semitone |-> semitone, octave |-> octave]

\* try { osc.stop(); osc.disconnect() } catch (e) {}
stopVoice(S, osc) ==
    LET Caught(T) == IF T.thrown THEN [T EXCEPT !.thrown = FALSE] ELSE T
    IN  Caught(disconnect(stop(S, osc), osc))

RECURSIVE stopVoices(_, _, _)
stopVoices(S, oscs, i) ==
    IF i > Len(oscs) THEN S ELSE stopVoices(stopVoice(S, oscs[i]), oscs, i + 1)

\* stopChord that releases one voice per call (shift instead of clearing)
stopChord_firstOnly(S) ==
    IF S.chordOscillators = <<>> THEN S
    ELSE [stopVoice(S, Head(S.chordOscillators)) EXCEPT !.chordOscillators = Tail(@)]

stopChord(S) ==
    [stopVoices(S, S.chordOscillators, 1) EXCEPT !.chordOscillators = <<>>]

\* the body of notes.forEach for the i-th note
playNote(S, k, chordGain, notes, octave, i) ==
    LET e        == S.comp
        osc      == Id(e, "chord", k, "osc", i)
        noteGain == Id(e, "chord", k, "noteGain", i)
        N1 == createOscillator(S, osc)
        N2 == createGain(N1, noteGain)
        N3 == setParam(N2, osc, "type", "sine")
        N4 == setParam(N3, osc, "frequency", semitoneToFrequency(notes[i], octave))
        N5 == setParam(N4, noteGain, "gain", FDivInt(1, Len(notes)))
        N6 == connect(N5, osc, noteGain, 0)
        N7 == connect(N6, noteGain, chordGain, 0)
        N8 == start(N7, osc)
        Pushed(T) == IF T.thrown THEN T ELSE [T EXCEPT !.chordOscillators = Append(@, osc)]
    IN  Pushed(N8)

RECURSIVE playNotes(_, _, _, _, _, _)
playNotes(S, k, chordGain, notes, octave, i) ==
    IF i > Len(notes) THEN S
    ELSE playNotes(playNote(S, k, chordGain, notes, octave, i), k, chordGain, notes, octave, i + 1)

\* playChord without the stopChord() call
playChord_noRelease(S, notes, octave, volume) ==
    IF S.audioContext = Null \/ S.analyser = Null THEN S
    ELSE
    LET VoiceAll(k, chordGain) ==
            LET G1 == createGain(S, chordGain)
                G2 == setParam(G1, chordGain, "gain", FMul(volume, ChordCeiling))
                G3 == connect(G2, chordGain, S.analyser, 0)
            IN  [playNotes(G3, k, chordGain, notes, octave, 1) EXCEPT !.made.chord = k]
    IN  VoiceAll(S.made.chord + 1, Id(S.comp, "chord", S.made.chord + 1, "chordGain", 0))

playChord(S, notes, octave, volume) ==
    IF S.audioContext = Null \/ S.analyser = Null THEN S
    ELSE
    LET Voice(R, k, chordGain) ==
            LET G1 == createGain(R, chordGain)
                G2 == setParam(G1, chordGain, "gain", FMul(volume, ChordCeiling))
                G3 == connect(G2, chordGain, S.analyser, 0)
            IN  [playNotes(G3, k, chordGain, notes, octave, 1) EXCEPT !.made.chord = k]
        \* R is the engine after the stopChord() call
        Replace(R) == Voice(R, R.made.chord + 1, Id(S.comp, "chord", R.made.chord + 1, "chordGain", 0))
    IN  Replace(stopChord(S))

\* playDrumSound that leaves the hit's gain at the default 1
playDrumSound_fullGain(S, drumType) ==
    IF S.audioContext = Null \/ S.analyser = Null THEN S
    ELSE IF drumType \notin DOMAIN S.drumBuffers THEN S
    ELSE
    LET source == Id(S.comp, "drum", S.made.drum + 1, "source", 0)
        gain   == Id(S.comp, "drum", S.made.drum + 1, "gain", 0)
        F1 == createBufferSource(S, source)
        F2 == createGain(F1, gain)
        F3 == setParam(F2, source, "buffer", S.drumBuffers[drumType])
        F4 == connect(F3, source, gain, 0)
        F5 == connect(F4, gain, S.analyser, 0)
        F6 == start(F5, source)
    IN  [F6 EXCEPT !.made.drum = @ + 1]

playDrumSound(S, drumType) ==
    IF S.audioContext = Null \/ S.analyser = Null THEN S
    ELSE IF drumType \notin DOMAIN S.drumBuffers THEN S
    ELSE
    LET e      == S.comp
        k      == S.made.drum + 1
        source == Id(e, "drum", k, "source", 0)
        gain   == Id(e, "drum", k, "gain", 0)
        H1 == createBufferSource(S, source)
        H2 == createGain(H1, gain)
        H3 == setParam(H2, source, "buffer", S.drumBuffers[drumType])
        H4 == setParam(H3, gain, "gain", DrumGain)
        H5 == connect(H4, source, gain, 0)
        H6 == connect(H5, gain, S.analyser, 0)
        H7 == start(H6, source)
    IN  [H7 EXCEPT !.made.drum = k]

\* ---------------------------------------------------------------------
\* The calls made so far
\* ---------------------------------------------------------------------
\* op, comp: the last call and the hook it was made on;
\* run:  how many calls of op in a row, on comp, end here (up to MaxRun);
\* e2e:  how far the last calls spell start(200, 4, 0, 0, 'sine'),
\*       updateNoiseMix(0.3), stopChord(), stop();
\* freq: the arguments of the last startBinaural or updateBinauralFrequencies;
\* mix:  the argument of the last startBinaural or updateNoiseMix;
\* held: the notes of the last playChord on an initialised hook, <<>> once
\*       stopChord followed it;
\* args: the arguments of the last call when it was an update or playDrumSound;
\* fired: the drum types the last call's interval callback has called
\*       playDrumSound with, in order, <<>> when the last call was made otherwise
NoHist == [op |-> "none", comp |-> "none", run |-> 0, e2e |-> 0,
           freq |-> <<0, 0>>, mix |-> FZero, held |-> <<>>, args |-> <<>>,
           fired |-> <<>>]
ArgOps == {"updateBinauralFrequencies", "updateNoiseMix", "updatePanning",
           "updateWaveform", "playDrumSound"}

Call(op, e, args) == [op |-> op, comp |-> e, args |-> args]

E2EStep(h, call, ready) ==
    LET first == /\ call.op = "startBinaural" /\ ready
                 /\ call.args = <<200, 4, FZero, FZero, "sine">>
        next  == \/ h.e2e = 1 /\ call.op = "updateNoiseMix" /\ call.args = <<Ceiling>>
                 \/ h.e2e = 2 /\ call.op = "stopChord"
                 \/ h.e2e = 3 /\ call.op = "stopBinaural"
    IN  IF call.comp = h.comp /\ next THEN h.e2e + 1
        ELSE IF first THEN 1 ELSE 0

HistStep(h, call, ready) ==
    [op   |-> call.op,
     comp |-> call.comp,
     run  |-> IF h.op = call.op /\ h.comp = call.comp
              THEN (IF h.run < MaxRun THEN h.run + 1 ELSE MaxRun) ELSE 1,
     e2e  |-> E2EStep(h, call, ready),
     freq |-> IF call.op \in {"startBinaural", "updateBinauralFrequencies"}
              THEN <<call.args[1], call.args[2]>> ELSE h.freq,
     mix  |-> IF call.op = "startBinaural" THEN call.args[3]
              ELSE IF call.op = "updateNoiseMix" THEN call.args[1] ELSE h.mix,
     held |-> IF call.op = "playChord" /\ ready THEN call.args[1]
              ELSE IF call.op = "stopChord" THEN <<>> ELSE h.held,
     args |-> IF call.op \in ArgOps THEN call.args ELSE <<>>,
     fired |-> <<>>]

\* ---------------------------------------------------------------------
\* Actions
\* ---------------------------------------------------------------------
Init ==
    /\ audioContext = [e \in Components |-> Null]
    /\ analyser = [e \in Components |-> Null]
    /\ binauralNodes = [e \in Components |-> EmptyHandle]
    /\ chordOscillators = [e \in Components |-> <<>>]
    /\ drumBuffers = [e \in Components |-> <<>>]
    /\ made = [e \in Components |-> [binaural |-> 0, chord |-> 0, drum |-> 0]]
    /\ nodes = <<>>
    /\ conn = {}
    /\ raised = FALSE
    /\ hist = NoHist
    /\ generator = [isPlaying |-> FALSE, baseFreq |-> 200, beatFreq |-> 10,
                    noiseMix |-> 0, panValue |-> 0, waveform |-> "sine"]
    /\ chordPlayer = [selectedChord |-> Null, octave |-> 4, chordVolume |-> 50]
    /\ beatSequencer =
         [isPlaying |-> FALSE, bpm |-> 120, currentStep |-> 0,
          pattern |-> << <<TRUE, FALSE, FALSE, FALSE, TRUE, FALSE, FALSE, FALSE>>,
                         <<FALSE, FALSE, TRUE, FALSE, FALSE, FALSE, TRUE, FALSE>>,
                         <<TRUE, TRUE, TRUE, TRUE, TRUE, TRUE, TRUE, TRUE>> >>]

\* the state after a call on hook e that ended in S
Commit(e, S, h) ==
    LET refs == Referenced([analyser EXCEPT ![e] = S.analyser],
                           [binauralNodes EXCEPT ![e] = S.binauralNodes],
                           [chordOscillators EXCEPT ![e] = S.chordOscillators])
        keep == Retained(S, refs)
    IN  /\ audioContext' = [audioContext EXCEPT ![e] = S.audioContext]
        /\ analyser' = [analyser EXCEPT ![e] = S.analyser]
        /\ binauralNodes' = [binauralNodes EXCEPT ![e] = S.binauralNodes]
        /\ chordOscillators' = [chordOscillators EXCEPT ![e] = S.chordOscillators]
        /\ drumBuffers' = [drumBuffers EXCEPT ![e] = S.drumBuffers]
        /\ made' = [made EXCEPT ![e] = S.made]
        /\ nodes' = [n \in keep |-> S.nodes[n]]
        /\ conn' = S.conn
        /\ raised' = (raised \/ S.thrown)
        /\ hist' = h

Ready(e) == audioContext[e] # Null /\ analyser[e] # Null
Builds(e) == made[e].binaural + made[e].chord + made[e].drum

\* useEffect(..., []): runs once per hook
Mount(e) ==
    /\ audioContext[e] = Null
    /\ Commit(e, mountEffect(Engine(e)), HistStep(hist, Call("mount", e, <<>>), FALSE))
    /\ UNCHANGED ui

CallStartBinaural(e, baseFreq, beatFreq, noiseMix, panValue, waveform) ==
    /\ Ready(e) => Builds(e) < MaxBuilds
    /\ Commit(e, startBinaural(Engine(e), baseFreq, beatFreq, noiseMix, panValue, waveform),
              HistStep(hist, Call("startBinaural", e,
                                  <<baseFreq, beatFreq, noiseMix, panValue, waveform>>), Ready(e)))
    /\ UNCHANGED ui

CallStopBinaural(e) ==
    /\ Commit(e, stopBinaural(Engine(e)), HistStep(hist, Call("stopBinaural", e, <<>>), Ready(e)))
    /\ UNCHANGED ui

CallUpdateBinauralFrequencies(e, baseFreq, beatFreq) ==
    /\ Commit(e, updateBinauralFrequencies(Engine(e), baseFreq, beatFreq),
              HistStep(hist, Call("updateBinauralFrequencies", e, <<baseFreq, beatFreq>>), Ready(e)))
    /\ UNCHANGED ui

CallUpdateNoiseMix(e, mix) ==
    /\ Commit(e, updateNoiseMix(Engine(e), mix),
              HistStep(hist, Call("updateNoiseMix", e, <<mix>>), Ready(e)))
    /\ UNCHANGED ui

CallUpdatePanning(e, panValue) ==
    /\ Commit(e, updatePanning(Engine(e), panValue),
              HistStep(hist, Call("updatePanning", e, <<panValue>>), Ready(e)))
    /\ UNCHANGED ui

CallUpdateWaveform(e, waveform) ==
    /\ Commit(e, updateWaveform(Engine(e), waveform),
              HistStep(hist, Call("updateWaveform", e, <<waveform>>), Ready(e)))
    /\ UNCHANGED ui

CallPlayChord(e, notes, octave, volume) ==
    /\ Ready(e) => Builds(e) < MaxBuilds
    /\ Commit(e, playChord(Engine(e), notes, octave, volume),
              HistStep(hist, Call("playChord", e, <<notes, octave, volume>>), Ready(e)))
    /\ UNCHANGED ui

CallStopChord(e) ==
    /\ Commit(e, stopChord(Engine(e)), HistStep(hist, Call("stopChord", e, <<>>), Ready(e)))
    /\ UNCHANGED ui

CallPlayDrumSound(e, drumType) ==
    /\ (Ready(e) /\ drumType \in DOMAIN drumBuffers[e]) => Builds(e) < MaxBuilds
    /\ Commit(e, playDrumSound(Engine(e), drumType),
              HistStep(hist, Call("playDrumSound", e, <<drumType>>), Ready(e)))
    /\ UNCHANGED ui

\* every function the hook returns, on one hook
Next ==
    \/ Mount(Hook)
    \/ \E a \in StartInputs : CallStartBinaural(Hook, a[1], a[2], a[3], a[4], a[5])
    \/ CallStopBinaural(Hook)
    \/ \E f \in UpdateFreqs : CallUpdateBinauralFrequencies(Hook, f[1], f[2])
    \/ \E m \in UpdateMixes : CallUpdateNoiseMix(Hook, m)
    \/ \E p \in UpdatePans : CallUpdatePanning(Hook, p)
    \/ \E w \in UpdateWaves : CallUpdateWaveform(Hook, w)
    \/ \E c \in ChordInputs : CallPlayChord(Hook, c[1], c[2], c[3])
    \/ CallStopChord(Hook)
    \/ \E d \in DrumTypes : CallPlayDrumSound(Hook, d)

Spec == Init /\ [][Next]_vars

\* the binaural functions of one hook, over all their parameter values
NextBinaural ==
    \/ Mount(Hook)
    \/ \E b \in BaseFreqs, t \in BeatFreqs, m \in Mixes, p \in Pans, w \in Waveforms :
          CallStartBinaural(Hook, b, t, m, p, w)
    \/ CallStopBinaural(Hook)
    \/ \E b \in BaseFreqs, t \in BeatFreqs : CallUpdateBinauralFrequencies(Hook, b, t)
    \/ \E m \in Mixes : CallUpdateNoiseMix(Hook, m)
    \/ \E p \in Pans : CallUpdatePanning(Hook, p)
    \/ \E w \in Waveforms : CallUpdateWaveform(Hook, w)

SpecBinaural == Init /\ [][NextBinaural]_vars

\* ---------------------------------------------------------------------
\* The page: three components, each with the hook it called
\* ---------------------------------------------------------------------
\* the effect of BinauralGenerator that follows a change of its state
syncEffect(S, g) ==
    IF g.isPlaying
    THEN updateWaveform(
           updatePanning(
             updateNoiseMix(
               updateBinauralFrequencies(S, g.baseFreq, g.beatFreq),
               Percent(g.noiseMix)),
             Percent(g.panValue)),
           g.waveform)
    ELSE S

syncHist(h, g, e, ready) ==
    IF g.isPlaying
    THEN HistStep(HistStep(HistStep(HistStep(h,
            Call("updateBinauralFrequencies", e, <<g.baseFreq, g.beatFreq>>), ready),
            Call("updateNoiseMix", e, <<Percent(g.noiseMix)>>), ready),
            Call("updatePanning", e, <<Percent(g.panValue)>>), ready),
            Call("updateWaveform", e, <<g.waveform>>), ready)
    ELSE h

HandleTogglePlay ==
    LET e == "BinauralGenerator"
        g == generator
        Paused(S1, g1) ==
            /\ Commit(e, S1, HistStep(hist, Call("stopBinaural", e, <<>>), Ready(e)))
            /\ generator' = g1
            /\ UNCHANGED <<chordPlayer, beatSequencer>>
        Pause(S1) == Paused(S1, IF S1.thrown THEN g ELSE [g EXCEPT !.isPlaying = FALSE])
        Played(S1, h1, g1) ==
            /\ Ready(e) => Builds(e) < MaxBuilds
            /\ Commit(e, syncEffect(S1, g1), syncHist(h1, g1, e, Ready(e)))
            /\ generator' = g1
            /\ UNCHANGED <<chordPlayer, beatSequencer>>
        Play(S1) == Played(S1,
                           HistStep(hist, Call("startBinaural", e,
                               <<g.baseFreq, g.beatFreq, Percent(g.noiseMix),
                                 Percent(g.panValue), g.waveform>>), Ready(e)),
                           IF S1.thrown THEN g ELSE [g EXCEPT !.isPlaying = TRUE])
    IN  IF g.isPlaying
        THEN Pause(stopBinaural(Engine(e)))
        ELSE Play(startBinaural(Engine(e), g.baseFreq, g.beatFreq,
                                Percent(g.noiseMix), Percent(g.panValue), g.waveform))

HandleChordPress(chord) ==
    LET e == "ChordPlayer" IN
    /\ Ready(e) => Builds(e) < MaxBuilds
    /\ chordPlayer' = [chordPlayer EXCEPT !.selectedChord = chord.name]
    /\ Commit(e, playChord(Engine(e), chord.notes, chordPlayer.octave,
                           Percent(chordPlayer.chordVolume)),
              HistStep(hist, Call("playChord", e,
                  <<chord.notes, chordPlayer.octave, Percent(chordPlayer.chordVolume)>>), Ready(e)))
    /\ UNCHANGED <<generator, beatSequencer>>

HandleChordRelease ==
    LET e == "ChordPlayer" IN
    /\ chordPlayer' = [chordPlayer EXCEPT !.selectedChord = Null]
    /\ Commit(e, stopChord(Engine(e)), HistStep(hist, Call("stopChord", e, <<>>), Ready(e)))
    /\ UNCHANGED <<generator, beatSequencer>>

\* the play/pause button of the sequencer
ToggleSequencer ==
    /\ beatSequencer' = [beatSequencer EXCEPT !.isPlaying = ~@]
    /\ UNCHANGED <<engine, hist, generator, chordPlayer>>

\* the tracks of the pattern that are active at a step (steps count from 0)
ActiveTracks(pattern, step) == {t \in 1..Len(pattern) : pattern[t][step + 1]}

\* pattern.forEach without the test of track[nextStep]
RECURSIVE playTracks_everyTrack(_, _, _, _)
playTracks_everyTrack(S, pattern, step, t) ==
    IF t > Len(pattern) THEN S
    ELSE playTracks_everyTrack(playDrumSound(S, TrackDrum[t]), pattern, step, t + 1)

RECURSIVE playTracks(_, _, _, _)
playTracks(S, pattern, step, t) ==
    IF t > Len(pattern) THEN S
    ELSE playTracks(IF pattern[t][step + 1] THEN playDrumSound(S, TrackDrum[t]) ELSE S,
                    pattern, step, t + 1)

RECURSIVE tickHist(_, _, _, _, _, _)
tickHist(h, pattern, step, t, e, ready) ==
    IF t > Len(pattern) THEN h
    ELSE tickHist(IF pattern[t][step + 1]
                  THEN [HistStep(h, Call("playDrumSound", e, <<TrackDrum[t]>>), ready)
                           EXCEPT !.fired = Append(h.fired, TrackDrum[t])]
                  ELSE h,
                  pattern, step, t + 1, e, ready)

\* one firing of the interval while the sequencer plays
Tick ==
    LET e        == "BeatSequencer"
        b        == beatSequencer
        nextStep == (b.currentStep + 1) % Steps
    IN  /\ b.isPlaying
        /\ Ready(e) => Builds(e) + Cardinality(ActiveTracks(b.pattern, nextStep)) <= MaxBuilds
        /\ Commit(e, playTracks(Engine(e), b.pattern, nextStep, 1),
                  tickHist([hist EXCEPT !.fired = <<>>], b.pattern, nextStep, 1, e, Ready(e)))
        /\ beatSequencer' = [b EXCEPT !.currentStep = nextStep]
        /\ UNCHANGED <<generator, chordPlayer>>

\* the delay handed to setInterval, in milliseconds: (60 / bpm / 2) * 1000
intervalMs(bpm) == FMul([FDivInt(60, bpm) EXCEPT !.e = @ - 1], FInt(1000))

\* the BPM slider
SetBpm(v) ==
    /\ beatSequencer' = [beatSequencer EXCEPT !.bpm = v]
    /\ UNCHANGED <<engine, hist, generator, chordPlayer>>

\* a click on the cell of a track (from 0) at a step (from 0)
ToggleStep(track, step) ==
    /\ beatSequencer' = [beatSequencer EXCEPT !.pattern[track + 1][step + 1] = ~@]
    /\ UNCHANGED <<engine, hist, generator, chordPlayer>>

\* BeatSequencer alone
NextSequencer ==
    \/ Mount("BeatSequencer")
    \/ ToggleSequencer
    \/ Tick
    \/ \E v \in Bpms : SetBpm(v)
    \/ \E c \in ToggleCells : ToggleStep(c[1], c[2])

SpecSequencer == Init /\ [][NextSequencer]_vars

NextApp ==
    \/ \E e \in Components : Mount(e)
    \/ HandleTogglePlay
    \/ \E c \in Chords : HandleChordPress(c)
    \/ HandleChordRelease
    \/ ToggleSequencer
    \/ Tick

SpecApp == Init /\ [][NextApp]_vars

\* =====================================================================
\* Properties
\* =====================================================================
PathNodes(e, path) == {n \in DOMAIN nodes : n[1] = e /\ n[2] = path}
Handle(e)    == {binauralNodes[e][f] : f \in HandleFields} \ {Null}
Live(e)      == binauralNodes[e] # EmptyHandle
Playing(n)   == "run" \in DOMAIN nodes[n] /\ nodes[n].run = "playing"
Connected(n) == \E c \in conn : c.from = n \/ c.to = n
Voices(e)    == {chordOscillators[e][i] : i \in 1..Len(chordOscillators[e])}
UpdateOps    == {"updateBinauralFrequencies", "updateNoiseMix", "updatePanning",
                 "updateWaveform"}

\* everything a signal leaving one of the nodes F passes through
RECURSIVE Downstream(_)
Downstream(F) ==
    LET Grown(N) == IF N = F THEN F ELSE Downstream(N)
    IN  Grown(F \cup {c.to : c \in {d \in conn : d.from \in F}})
Audible(n) == DestinationId(n[1]) \in Downstream({n})

\* the connections that leave nodes of the given paths, and those nodes
PathConn(C, paths)  == {c \in C : c.from[2] \in paths}
PathPart(N, paths)  == [n \in {m \in DOMAIN N : m[2] \in paths} |-> N[n]]

\* C1: whatever was called before, every binaural node that still plays or is
\* still connected belongs to the current handle, at most one binaural node
\* feeds the analyser, and right after startBinaural on an initialised hook
\* exactly the handle's two oscillators and its noise source are playing and
\* reach the destination.
OneBinauralGraph ==
    \A e \in Components :
        LET h == binauralNodes[e]
            B == PathNodes(e, "binaural")
        IN  /\ \A n \in B \ Handle(e) : ~Playing(n) /\ ~Connected(n)
            /\ Cardinality({c \in PathConn(conn, {"binaural"}) :
                              c.from[1] = e /\ c.to = analyser[e]}) <= 1
            /\ (hist.op = "startBinaural" /\ hist.comp = e /\ Ready(e)) =>
                  /\ ~raised
                  /\ h.leftOsc # Null /\ h.rightOsc # Null /\ h.leftOsc # h.rightOsc
                  /\ h.noiseSource # Null
                  /\ {n \in B : Playing(n) /\ nodes[n].kind = "oscillator"}
                        = {h.leftOsc, h.rightOsc}
                  /\ {n \in B : Playing(n) /\ nodes[n].kind = "bufferSource"}
                        = {h.noiseSource}
                  /\ Audible(h.leftOsc) /\ Audible(h.rightOsc) /\ Audible(h.noiseSource)

\* two startBinaural calls in a row on an initialised hook
TwoStartsInARow ==
    hist.op = "startBinaural" /\ hist.run >= 2 /\ Ready(hist.comp) /\ Live(hist.comp)

\* C2: after stopBinaural nothing was raised, every handle field is null and
\* no binaural node plays or is connected any more; after the sequence
\* start(200, 4, 0, 0, 'sine'), updateNoiseMix(0.3), stopChord(), stop() on a
\* fresh hook the graph holds the analyser and the destination only.
StopRetiresGraph ==
    /\ hist.op = "stopBinaural" =>
          /\ ~raised
          /\ binauralNodes[hist.comp] = EmptyHandle
          /\ \A n \in PathNodes(hist.comp, "binaural") : ~Playing(n) /\ ~Connected(n)
    /\ (hist.e2e = 4 /\ Builds(hist.comp) = 1) =>
          /\ ~raised
          /\ DOMAIN nodes = {AnalyserId(hist.comp), DestinationId(hist.comp)}
          /\ conn = {[from |-> AnalyserId(hist.comp), to |-> DestinationId(hist.comp),
                      input |-> 0]}

\* the four calls of the end-to-end sequence were the only ones that built anything
EndToEndDone == hist.e2e = 4 /\ Builds(hist.comp) = 1

\* C3: a stopBinaural call with no live session, and a stopBinaural call that
\* directly follows another, raise nothing and change nothing; the handle is
\* then as it was before any start.
StopIsIdempotent ==
    [][hist'.op = "stopBinaural" =>
          ((binauralNodes[hist'.comp] = EmptyHandle
              \/ (hist.op = "stopBinaural" /\ hist.comp = hist'.comp))
           => (UNCHANGED engine /\ ~raised' /\ binauralNodes'[hist'.comp] = EmptyHandle))]_vars

\* a second stopBinaural in a row, after a session had been started
StoppedTwice ==
    hist.op = "stopBinaural" /\ hist.run >= 2 /\ made[hist.comp].binaural >= 1

\* C4: an update call made while the handle is empty raises nothing and
\* leaves the hook, its voices, its buffers and the graph as they were.
UpdatesSkipWithoutSession ==
    [][(hist'.op \in UpdateOps /\ binauralNodes[hist'.comp] = EmptyHandle)
          => (UNCHANGED engine /\ ~raised')]_vars

\* an update call after the session was stopped, while a chord is held
UpdateAfterStop ==
    /\ hist.op \in UpdateOps /\ ~Live(hist.comp)
    /\ made[hist.comp].binaural >= 1 /\ chordOscillators[hist.comp] # <<>>

\* C5: the chord oscillators that play or are connected are exactly the ones
\* in chordOscillators; they were all created by the latest playChord, one per
\* note of the chord held, and there are none once stopChord followed.
OneChordVoiceSet ==
    \A e \in Components :
        LET v == chordOscillators[e] IN
        /\ {n \in PathNodes(e, "chord") :
              nodes[n].kind = "oscillator" /\ (Playing(n) \/ Connected(n))} = Voices(e)
        /\ \A i \in 1..Len(v) :
              /\ Playing(v[i]) /\ \E c \in conn : c.from = v[i]
              /\ v[i][3] = made[e].chord
              /\ \A j \in 1..Len(v) : v[i] = v[j] => i = j
        /\ made[e].chord > 0 =>
              /\ Len(v) = Len(hist.held)
              /\ \A i \in 1..Len(v) : nodes[v[i]].frequency.semitone = hist.held[i]

\* a chord pressed while another one was held
ChordReplaced ==
    /\ hist.op = "playChord" /\ hist.run >= 2 /\ Ready(hist.comp)
    /\ chordOscillators[hist.comp] # <<>>

\* C6: stopChord never raises; with no voice held, or directly after another
\* stopChord, it changes nothing.
StopChordIsIdempotent ==
    [][hist'.op = "stopChord" =>
          /\ ~raised'
          /\ (chordOscillators[hist'.comp] = <<>>
                \/ (hist.op = "stopChord" /\ hist.comp = hist'.comp))
             => UNCHANGED engine]_vars

\* the release handler fired twice after a press
ReleasedTwice ==
    hist.op = "stopChord" /\ hist.run >= 2 /\ made[hist.comp].chord >= 1

\* C7: there is one analyser, and whatever is connected into an analyser is
\* connected into the one the visualizer reads.
SingleAnalysisTap ==
    /\ Cardinality({n \in DOMAIN nodes : nodes[n].kind = "analyser"}) <= 1
    /\ \A c \in conn : nodes[c.to].kind = "analyser" => c.to = analyser["BinauralGenerator"]

\* C8: stopBinaural and startBinaural leave the chord and drum nodes, their
\* connections and the voice list as they were; stopChord and playChord
\* leave the handle, the binaural nodes and their connections as they were;
\* the analyser stays connected to the destination.
TeardownKeepsOtherPaths ==
    [][/\ hist'.op \in {"stopBinaural", "startBinaural"} =>
            /\ chordOscillators' = chordOscillators
            /\ PathConn(conn', {"chord", "drum"}) = PathConn(conn, {"chord", "drum"})
            /\ PathPart(nodes', {"chord", "drum"}) = PathPart(nodes, {"chord", "drum"})
       /\ hist'.op \in {"stopChord", "playChord"} =>
            /\ binauralNodes' = binauralNodes
            /\ PathConn(conn', {"binaural"}) = PathConn(conn, {"binaural"})
            /\ PathPart(nodes', {"binaural"}) = PathPart(nodes, {"binaural"})
       /\ \A e \in Components :
            Ready(e) => [from |-> analyser[e], to |-> DestinationId(e), input |-> 0] \in conn'
      ]_vars

\* a session replaced by startBinaural while a chord is held
RestartUnderChord ==
    /\ hist.op = "startBinaural" /\ hist.run >= 2 /\ Live(hist.comp)
    /\ chordOscillators[hist.comp] # <<>>

\* C9: while a session is live the left oscillator is at the base frequency
\* and the right one at base plus beat of the latest startBinaural or
\* updateBinauralFrequencies call, so they differ by the beat.
FrequenciesFollowCalls ==
    \A e \in Components :
        (Live(e) /\ hist.comp = e) =>
            LET l == nodes[binauralNodes[e].leftOsc].frequency
                r == nodes[binauralNodes[e].rightOsc].frequency
            IN  /\ l = hist.freq[1]
                /\ r = hist.freq[1] + hist.freq[2]
                /\ r - l = hist.freq[2]

\* a live session retuned to other values than it was started with
Retuned ==
    /\ hist.op = "updateBinauralFrequencies" /\ Live(hist.comp)
    /\ nodes[binauralNodes[hist.comp].leftOsc].frequency = 400
    /\ nodes[binauralNodes[hist.comp].rightOsc].frequency = 410
    /\ made[hist.comp].binaural = 1

ToneGain(e)  == nodes[binauralNodes[e].toneGain].gain
NoiseGain(e) == nodes[binauralNodes[e].noiseGain].gain
\* 0.3 less and plus two units in the last place
CeilingLow  == [Ceiling EXCEPT !.m = BSub(@, <<2>>)]
CeilingHigh == [Ceiling EXCEPT !.m = BAdd(@, <<2>>)]

\* C10 as stated: while a session is live the tone gain is 0.3 * (1 - mix),
\* the noise gain 0.3 * mix, both at most 0.3, and their sum is 0.3.
GainsSumToCeiling ==
    \A e \in Components :
        (Live(e) /\ hist.comp = e) =>
            /\ ToneGain(e) = FMul(Ceiling, FSub(One, hist.mix))
            /\ NoiseGain(e) = FMul(Ceiling, hist.mix)
            /\ FLeq(ToneGain(e), Ceiling) /\ FLeq(NoiseGain(e), Ceiling)
            /\ FAdd(ToneGain(e), NoiseGain(e)) = Ceiling

\* C10 as amended: the same, with the sum within two units in the last place
\* of 0.3.
GainsWithinCeiling ==
    \A e \in Components :
        (Live(e) /\ hist.comp = e) =>
            /\ ToneGain(e) = FMul(Ceiling, FSub(One, hist.mix))
            /\ NoiseGain(e) = FMul(Ceiling, hist.mix)
            /\ FLeq(ToneGain(e), Ceiling) /\ FLeq(NoiseGain(e), Ceiling)
            /\ FLeq(CeilingLow, FAdd(ToneGain(e), NoiseGain(e)))
            /\ FLeq(FAdd(ToneGain(e), NoiseGain(e)), CeilingHigh)

\* a live session whose mix was moved to 0.1
MixedAtTenth ==
    hist.op = "updateNoiseMix" /\ Live(hist.comp) /\ hist.mix = Percent(10)

\* the buffers computed once when the hook is initialised
Precomputed == [t \in {"kick", "snare", "hihat"} |->
                   IF t = "kick" THEN KickBuffer
                   ELSE IF t = "snare" THEN SnareBuffer ELSE HihatBuffer]

\* C11: on an initialised hook playDrumSound with kick, snare or hihat adds
\* exactly one buffer source (not looping, playing the precomputed buffer of
\* that type) and one gain of 0.5, connected source -> gain -> analyser, and
\* leaves every other node, every other connection, the three buffers, the
\* handle and the chord voices as they were; with any other type it changes
\* nothing at all.
DrumHitIsOneShot ==
    [][hist'.op = "playDrumSound" =>
        LET e == hist'.comp
            t == hist'.args[1]
            s == Id(e, "drum", made[e].drum + 1, "source", 0)
            g == Id(e, "drum", made[e].drum + 1, "gain", 0)
        IN  IF Ready(e) /\ t \in {"kick", "snare", "hihat"}
            THEN /\ s \notin DOMAIN nodes /\ g \notin DOMAIN nodes
                 /\ DOMAIN nodes' = DOMAIN nodes \cup {s, g}
                 /\ nodes'[s] = [kind |-> "bufferSource", buffer |-> Precomputed[t],
                                 loop |-> FALSE, run |-> "playing"]
                 /\ nodes'[g] = [kind |-> "gain", gain |-> FDivInt(1, 2)]
                 /\ conn' = conn \cup {[from |-> s, to |-> g, input |-> 0],
                                        [from |-> g, to |-> analyser[e], input |-> 0]}
                 /\ \A n \in DOMAIN nodes : nodes'[n] = nodes[n]
                 /\ made'[e].drum = made[e].drum + 1
                 /\ drumBuffers'[e] = Precomputed
                 /\ UNCHANGED <<audioContext, analyser, binauralNodes, chordOscillators,
                                drumBuffers, raised>>
            ELSE UNCHANGED engine
      ]_vars

\* a second hit made while the first one plays
DrumHitsOverlap ==
    /\ hist.op = "playDrumSound" /\ hist.run >= 2
    /\ Cardinality({n \in PathNodes(hist.comp, "drum") : Playing(n)}) >= 2
    /\ hist.args[1] = "snare"

\* everything a signal leaving one of the nodes F reaches without passing
\* through node x
RECURSIVE ReachAvoiding(_, _)
ReachAvoiding(F, x) ==
    LET Wider(N) == IF N = F THEN F ELSE ReachAvoiding(N, x)
    IN  Wider(F \cup {c.to : c \in {d \in conn : d.from \in F /\ d.to # x}})
OutOf(n) == {[to |-> c.to, input |-> c.input] : c \in {d \in conn : d.from = n}}

\* C12 as stated: while a session is live the delay time is 0.3 and the
\* feedback gain 0, the panner and the analyser are downstream of the merger,
\* and the panner cannot be reached from the merger without passing through
\* the delay node.
DelayBeforePanner ==
    \A e \in Components :
        Live(e) =>
            /\ nodes[binauralNodes[e].delayNode].delayTime = FDivInt(3, 10)
            /\ nodes[binauralNodes[e].delayGain].gain = FZero
            /\ {binauralNodes[e].panNode, analyser[e]}
                   \subseteq Downstream({binauralNodes[e].merger})
            /\ binauralNodes[e].panNode
                   \notin ReachAvoiding({binauralNodes[e].merger}, binauralNodes[e].delayNode)

\* C12 as amended: while a session is live the delay time is 0.3 and the
\* feedback gain 0; the merger feeds the panner directly and the panner feeds
\* the analyser; the delay sits in a loop beside that path: the merger also
\* feeds the delay node, the delay node feeds only the feedback gain, and the
\* feedback gain feeds only the merger.
DelayLoopIsInert ==
    \A e \in Components :
        Live(e) =>
            /\ nodes[binauralNodes[e].delayNode].delayTime = FDivInt(3, 10)
            /\ nodes[binauralNodes[e].delayGain].gain = FZero
            /\ OutOf(binauralNodes[e].merger)
                  = {[to |-> binauralNodes[e].delayNode, input |-> 0],
                     [to |-> binauralNodes[e].panNode, input |-> 0]}
            /\ OutOf(binauralNodes[e].panNode) = {[to |-> analyser[e], input |-> 0]}
            /\ OutOf(binauralNodes[e].delayNode)
                  = {[to |-> binauralNodes[e].delayGain, input |-> 0]}
            /\ OutOf(binauralNodes[e].delayGain)
                  = {[to |-> binauralNodes[e].merger, input |-> 0]}

\* a second session, after its waveform was changed
SecondSessionLive ==
    /\ hist.op = "updateWaveform" /\ Live(hist.comp)
    /\ made[hist.comp].binaural = 2

\* the graph after the last call, when that call was op on a live session
\* and set exactly the given parameters
OnlySet(op, Changed(_, _, _)) ==
    (hist'.op = op /\ Live(hist'.comp)) =>
        /\ nodes' = Changed(nodes, binauralNodes[hist'.comp], hist'.args)
        /\ UNCHANGED <<audioContext, analyser, binauralNodes, chordOscillators,
                       drumBuffers, made, conn, raised>>

\* C13: on a live session updateWaveform(w) sets the type of both
\* oscillators to w, updateBinauralFrequencies(b, t) sets the left frequency
\* to b and the right one to b + t, updateNoiseMix(m) sets the tone gain to
\* (1 - m) * 0.3 and the noise gain to m * 0.3, updatePanning(p) sets the pan
\* to p; each leaves every other parameter of every node, the set of nodes,
\* all connections and the handle as they were.
UpdatesOnlyRetune ==
    [][/\ LET SetTypes(N, h, a) == [N EXCEPT ![h.leftOsc].type = a[1],
                                             ![h.rightOsc].type = a[1]]
          IN  OnlySet("updateWaveform", SetTypes)
       /\ LET SetFreqs(N, h, a) == [N EXCEPT ![h.leftOsc].frequency = a[1],
                                             ![h.rightOsc].frequency = a[1] + a[2]]
          IN  OnlySet("updateBinauralFrequencies", SetFreqs)
       /\ LET SetGains(N, h, a) ==
                  [N EXCEPT ![h.toneGain].gain = FMul(FSub(FInt(1), a[1]), FDivInt(3, 10)),
                            ![h.noiseGain].gain = FMul(a[1], FDivInt(3, 10))]
          IN  OnlySet("updateNoiseMix", SetGains)
       /\ LET SetPan(N, h, a) == [N EXCEPT ![h.panNode].pan = a[1]]
          IN  OnlySet("updatePanning", SetPan)
      ]_vars

\* a live session whose frequencies, panning and then waveform were changed
RetunedThenReshaped ==
    /\ hist.op = "updateWaveform" /\ Live(hist.comp)
    /\ hist.args = <<"square">>
    /\ nodes[binauralNodes[hist.comp].leftOsc].type = "square"
    /\ nodes[binauralNodes[hist.comp].rightOsc].frequency = 404
    /\ nodes[binauralNodes[hist.comp].panNode].pan = Percent(-100)

\* the whole part of a non-negative double below 2^53
Whole(x) == IF x.m = <<>> THEN <<>> ELSE IF x.e >= 0 THEN BShl(x.m, x.e) ELSE BShr(x.m, -x.e)
\* the drum types of the tracks of pattern p that are active at step s
ActiveDrums(p, s) ==
    (IF p[1][s + 1] THEN <<"kick">> ELSE <<>>)
    \o (IF p[2][s + 1] THEN <<"snare">> ELSE <<>>)
    \o (IF p[3][s + 1] THEN <<"hihat">> ELSE <<>>)

\* C14: the step is always in 0..7; a step that changes it is made while the
\* sequencer plays, takes it from s to (s + 1) mod 8 and calls playDrumSound
\* once for each track active at the new step, in track order, and for no
\* other (one drum instance each once the hook is initialised); the delay of
\* the timer is 30000 / bpm milliseconds, in whole milliseconds; while the
\* sequencer is paused the step stays, no drum instance is created and no call
\* is made.
TickAdvancesAndFires ==
    [][/\ beatSequencer'.currentStep \in 0..7
       /\ Whole(intervalMs(beatSequencer'.bpm)) = BFromInt(30000 \div beatSequencer'.bpm)
       /\ beatSequencer'.currentStep # beatSequencer.currentStep =>
            /\ beatSequencer.isPlaying
            /\ beatSequencer'.currentStep = (beatSequencer.currentStep + 1) % 8
            /\ hist'.fired = ActiveDrums(beatSequencer.pattern, beatSequencer'.currentStep)
            /\ made'["BeatSequencer"].drum = made["BeatSequencer"].drum
                  + (IF Ready("BeatSequencer") THEN Len(hist'.fired) ELSE 0)
       /\ ~beatSequencer.isPlaying =>
            /\ beatSequencer'.currentStep = beatSequencer.currentStep
            /\ made'["BeatSequencer"].drum = made["BeatSequencer"].drum
            /\ hist' = hist \/ hist'.op = "mount"
      ]_vars

\* the step wrapped from 7 to 0 on an initialised hook: kick and hihat fired
WrappedWithHits ==
    /\ beatSequencer.currentStep = 0 /\ beatSequencer.isPlaying
    /\ hist.fired = <<"kick", "hihat">>
    /\ made["BeatSequencer"].drum = 2

\* C15: BinauralGenerator's isPlaying is true exactly when its hook holds a
\* binaural session (the handle is not empty), whatever was clicked and
\* whether or not the hook was initialised by then.
PlayFlagMatchesSession ==
    generator.isPlaying <=> Live("BinauralGenerator")

\* C16: right after stopChord no node of the chord path (oscillator, note
\* gain or chord gain) is connected to the analyser, directly or through
\* other nodes.
ChordReleaseClearsTap ==
    \A e \in Components :
        (hist.op = "stopChord" /\ hist.comp = e /\ Ready(e)) =>
            \A n \in PathNodes(e, "chord") : analyser[e] \notin Downstream({n})
====
